---------------------------- MODULE Spec2Model ----------------------------
(***************************************************************************)
(* A model of terminusdb-surgery (src/src/main.rs): the command handlers   *)
(* that inspect a layer archive (parse-header, extract / slice readers,    *)
(* print-dict, triple-count, validate-log-array) and the two index         *)
(* builders.  main() dispatches exactly one command per run, so every      *)
(* command has its own specification over its own group of variables; the  *)
(* other groups stay idle.                                                 *)
(*                                                                         *)
(* The handlers are translated from main.rs.  What they call in the        *)
(* terminus_store crate (the slice reader's read, the control-word codec,  *)
(* the log array, the two builders) has no code in this repository and is  *)
(* modelled from the specification's description of it.                    *)
(***************************************************************************)
EXTENDS Integers, Sequences, FiniteSets, TLC

VARIABLES
    \* parse_and_print_header
    hp_hdr, hp_sort, hp_result, hp_pc,
    \* open_slice / extract_file and the readers they build
    sl_hdr, sl_cursor, sl_handle, sl_kind, sl_remaining, sl_out, sl_eof,
    \* print_dict
    pd_items, pd_ix, pd_printed, pd_pc,
    \* get_triple_count
    tc_hdr, tc_file, tc_pos, tc_buf, tc_printed, tc_pc,
    \* control-word codec
    cw_count, cw_width, cw_buf, cw_out, cw_pc,
    \* validate_logarray
    la_v, la_width, la_first, la_buf, la_flag, la_parsed, la_pc,
    \* build_object_index
    ob_triples, ob_src, ob_dir, ob_pc,
    \* build_predicate_index
    pi_seq, pi_dir, pi_pc

hpVars == <<hp_hdr, hp_sort, hp_result, hp_pc>>
slVars == <<sl_hdr, sl_cursor, sl_handle, sl_kind, sl_remaining, sl_out, sl_eof>>
pdVars == <<pd_items, pd_ix, pd_printed, pd_pc>>
tcVars == <<tc_hdr, tc_file, tc_pos, tc_buf, tc_printed, tc_pc>>
cwVars == <<cw_count, cw_width, cw_buf, cw_out, cw_pc>>
laVars == <<la_v, la_width, la_first, la_buf, la_flag, la_parsed, la_pc>>
obVars == <<ob_triples, ob_src, ob_dir, ob_pc>>
piVars == <<pi_seq, pi_dir, pi_pc>>
vars == <<hpVars, slVars, pdVars, tcVars, cwVars, laVars, obVars, piVars>>

-----------------------------------------------------------------------------
(* Bounds of the model *)

\* LayerFileEnum::Rollup as usize: the last ordinal of the (scaled down)
\* closed enumeration of segment kinds.
Rollup == 2
\* Longest segment of a generated archive.
MaxSegLen == 2

-----------------------------------------------------------------------------
(* Small helpers *)

Min(a, b) == IF a <= b THEN a ELSE b

Reverse(s) == [i \in 1..Len(s) |-> s[Len(s) + 1 - i]]

Front(s) == SubSeq(s, 1, Len(s) - 1)

-----------------------------------------------------------------------------
(* Archive header: segment kind -> optional (start, end) range, relative   *)
(* to the start of the segment region.                                     *)

Kinds == 0..Rollup

Absent == [present |-> FALSE, start |-> 0, end |-> 0]

RECURSIVE SumBefore(_, _)
SumBefore(lens, k) ==
    IF k = 0 THEN 0
    ELSE SumBefore(lens, k - 1) + (IF lens[k - 1] < 0 THEN 0 ELSE lens[k - 1])

\* The header a well-formed archive yields: consecutive, non-overlapping
\* ranges with end >= start; lens[k] = -1 marks a segment the layer lacks.
MakeHeader(lens) ==
    [k \in Kinds |->
        IF lens[k] < 0 THEN Absent
        ELSE [present |-> TRUE,
              start |-> SumBefore(lens, k),
              end |-> SumBefore(lens, k) + lens[k]]]

Headers(maxLen) == {MakeHeader(lens) : lens \in [Kinds -> -1..maxLen]}

\* header.range_for(file_type): Some(range) or None
range_for(hdr, k) == hdr[k]

\* Range<usize>::len(): end - start, 0 for an empty or inverted range
RangeLen(r) == IF r.end >= r.start THEN r.end - r.start ELSE 0

-----------------------------------------------------------------------------
(* parse_and_print_header *)

\* the loop `for i in 0..=(LayerFileEnum::Rollup as usize)` with its push
RECURSIVE CollectSegments(_, _)
CollectSegments(hdr, i) ==
    IF i > Rollup THEN <<>>
    ELSE (IF range_for(hdr, i).present
          THEN <<[name |-> i,
                  start |-> range_for(hdr, i).start,
                  end |-> range_for(hdr, i).end,
                  len |-> RangeLen(range_for(hdr, i))]>>
          ELSE <<>>) \o CollectSegments(hdr, i + 1)

\* one insertion of a stable sort: x goes after every element whose key is <= its own
RECURSIVE InsertByLen(_, _)
InsertByLen(x, s) ==
    IF s = <<>> THEN <<x>>
    ELSE IF s[Len(s)].len <= x.len THEN Append(s, x)
    ELSE Append(InsertByLen(x, Front(s)), s[Len(s)])

\* result.sort_by_key(|x| x.3): stable, ascending by length
RECURSIVE SortByKey(_)
SortByKey(s) ==
    IF s = <<>> THEN <<>>
    ELSE InsertByLen(s[Len(s)], SortByKey(Front(s)))

\* faulty variant: the sort without the reverse() that follows it
SortedReportNoReverse(result) == SortByKey(result)

\* `if sort { result.sort_by_key(|x| x.3); result.reverse(); }`
SortedReport(result) == Reverse(SortByKey(result))

HeaderReport(hdr, sort) ==
    IF sort THEN SortedReport(CollectSegments(hdr, 0)) ELSE CollectSegments(hdr, 0)

\* the group's variables when main() dispatched another command
hpIdle ==
    /\ hp_hdr = [k \in Kinds |-> Absent] /\ hp_sort = FALSE
    /\ hp_result = <<>> /\ hp_pc = "idle"

hpInit ==
    /\ hp_hdr \in Headers(MaxSegLen)
    /\ hp_sort \in BOOLEAN
    /\ hp_result = <<>>
    /\ hp_pc = "start"

parse_and_print_header ==
    /\ hp_pc = "start"
    /\ hp_result' = HeaderReport(hp_hdr, hp_sort)
    /\ hp_pc' = "done"
    /\ UNCHANGED <<hp_hdr, hp_sort>>
    /\ UNCHANGED <<slVars, pdVars, tcVars, cwVars, laVars, obVars, piVars>>

NextHeader == parse_and_print_header

\* C6: the report has exactly one entry (name, start, end, length) per
\* present segment kind and none for an absent kind, each with
\* length = end - start, and with sort requested the entries are in
\* descending order of length.
C6_ReportComplete ==
    hp_pc = "done" =>
        /\ \A k \in Kinds :
              Cardinality({i \in 1..Len(hp_result) : hp_result[i].name = k})
                  = (IF hp_hdr[k].present THEN 1 ELSE 0)
        /\ \A i \in 1..Len(hp_result) :
              /\ hp_result[i].name \in Kinds
              /\ hp_result[i].start = hp_hdr[hp_result[i].name].start
              /\ hp_result[i].end = hp_hdr[hp_result[i].name].end
              /\ hp_result[i].len = hp_result[i].end - hp_result[i].start
        /\ hp_sort =>
              \A i \in 1..(Len(hp_result) - 1) : hp_result[i].len >= hp_result[i + 1].len

\* C6 witness: a sorted report of a header with an absent kind, in which
\* the sort moved a later, longer segment in front of an earlier one.
C6_Witness ==
    /\ hp_pc = "done" /\ hp_sort
    /\ \E k \in Kinds : ~hp_hdr[k].present
    /\ Len(hp_result) >= 2
    /\ hp_result[1].name > hp_result[2].name
    /\ hp_result[1].len > hp_result[2].len

-----------------------------------------------------------------------------
(* Archive slice readers: open_slice and extract_file *)

\* Bytes of the header block in front of the segment region: where
\* ArchiveHeader::parse_from_reader leaves the cursor of a fresh handle.
HdrLen == 2
\* Bytes one pass of tokio::io::copy asks the reader for.
CopyChunk == 2

Readers == {"r1", "r2"}
NoHandle == "none"

\* The archive file is [header][segment region]; it ends with its last segment.
RECURSIVE MaxEnd(_, _)
MaxEnd(hdr, k) ==
    IF k < 0 THEN 0
    ELSE IF hdr[k].present /\ hdr[k].end > MaxEnd(hdr, k - 1) THEN hdr[k].end
    ELSE MaxEnd(hdr, k - 1)

FileLen(hdr) == HdrLen + MaxEnd(hdr, Rollup)

\* A byte of the file is identified by its absolute offset.
Offsets(from, n) == [i \in 1..n |-> from + i - 1]

\* faulty variant: every open lands on one shared file description (one cursor)
OpenHandleShared(r) == "r1"

\* tokio::fs::File::open(file_name): a file description of the caller's own
OpenHandle(r) == r

\* reader.seek(SeekFrom::Current(range.start)) right after the header parse
SeekToSegment(range) == HdrLen + range.start

\* faulty variant: the bound is the range's end instead of its length
SliceBoundEnd(range) == range.end

\* `let remaining = range.len();` / ArchiveSliceReader::new(file, range.len())
SliceBound(range) == RangeLen(range)

\* ArchiveSliceReader's read of n bytes: what the bound and the file allow
ReadCount(hdr, cursor, remaining, n) == Min(n, Min(remaining, FileLen(hdr) - cursor))

\* tokio::io::copy(&mut reader, &mut output): read chunks until a read returns 0
RECURSIVE CopyAll(_, _, _, _)
CopyAll(hdr, cursor, remaining, out) ==
    LET k == ReadCount(hdr, cursor, remaining, CopyChunk)
    IN  IF k = 0 THEN [cursor |-> cursor, remaining |-> remaining, out |-> out]
        ELSE CopyAll(hdr, cursor + k, remaining - k, out \o Offsets(cursor, k))

\* the group's variables when main() dispatched another command
slIdle ==
    /\ sl_hdr = [k \in Kinds |-> Absent]
    /\ sl_cursor = [h \in Readers |-> 0]
    /\ sl_handle = [r \in Readers |-> NoHandle]
    /\ sl_kind = [r \in Readers |-> 0]
    /\ sl_remaining = [r \in Readers |-> 0]
    /\ sl_out = [r \in Readers |-> <<>>]
    /\ sl_eof = [r \in Readers |-> FALSE]

slInit ==
    /\ sl_hdr \in Headers(MaxSegLen)
    /\ sl_cursor = [h \in Readers |-> 0]
    /\ sl_handle = [r \in Readers |-> NoHandle]
    /\ sl_kind = [r \in Readers |-> 0]
    /\ sl_remaining = [r \in Readers |-> 0]
    /\ sl_out = [r \in Readers |-> <<>>]
    /\ sl_eof = [r \in Readers |-> FALSE]

open_slice(r, k) ==
    /\ sl_handle[r] = NoHandle
    /\ range_for(sl_hdr, k).present          \* .unwrap(): no reader otherwise
    /\ LET h == OpenHandle(r)
           range == range_for(sl_hdr, k)
       IN  /\ sl_handle' = [sl_handle EXCEPT ![r] = h]
           /\ sl_cursor' = [sl_cursor EXCEPT ![h] = SeekToSegment(range)]
           /\ sl_remaining' = [sl_remaining EXCEPT ![r] = SliceBound(range)]
    /\ sl_kind' = [sl_kind EXCEPT ![r] = k]
    /\ sl_out' = [sl_out EXCEPT ![r] = <<>>]
    /\ sl_eof' = [sl_eof EXCEPT ![r] = FALSE]
    /\ UNCHANGED sl_hdr
    /\ UNCHANGED <<hpVars, pdVars, tcVars, cwVars, laVars, obVars, piVars>>

\* one read call of n >= 1 bytes on reader r; sl_eof[r] records whether it
\* returned end-of-data (0 bytes)
SliceRead(r, n) ==
    /\ sl_handle[r] # NoHandle
    /\ LET h == sl_handle[r]
           k == ReadCount(sl_hdr, sl_cursor[h], sl_remaining[r], n)
       IN  /\ sl_out' = [sl_out EXCEPT ![r] = @ \o Offsets(sl_cursor[h], k)]
           /\ sl_cursor' = [sl_cursor EXCEPT ![h] = @ + k]
           /\ sl_remaining' = [sl_remaining EXCEPT ![r] = @ - k]
           /\ sl_eof' = [sl_eof EXCEPT ![r] = (k = 0)]
    /\ UNCHANGED <<sl_hdr, sl_handle, sl_kind>>
    /\ UNCHANGED <<hpVars, pdVars, tcVars, cwVars, laVars, obVars, piVars>>

\* extract_file: the same construction, then the copy to stdout to end-of-data
extract_file(r, k) ==
    /\ sl_handle[r] = NoHandle
    /\ range_for(sl_hdr, k).present          \* else panic!("layer did not contain ...")
    /\ LET h == OpenHandle(r)
           range == range_for(sl_hdr, k)
           done == CopyAll(sl_hdr, SeekToSegment(range), SliceBound(range), <<>>)
       IN  /\ sl_handle' = [sl_handle EXCEPT ![r] = h]
           /\ sl_cursor' = [sl_cursor EXCEPT ![h] = done.cursor]
           /\ sl_remaining' = [sl_remaining EXCEPT ![r] = done.remaining]
           /\ sl_out' = [sl_out EXCEPT ![r] = done.out]
    /\ sl_kind' = [sl_kind EXCEPT ![r] = k]
    /\ sl_eof' = [sl_eof EXCEPT ![r] = TRUE]     \* the copy ends on a read of 0 bytes
    /\ UNCHANGED sl_hdr
    /\ UNCHANGED <<hpVars, pdVars, tcVars, cwVars, laVars, obVars, piVars>>

NextSlice ==
    \/ \E r \in Readers, k \in Kinds : open_slice(r, k)
    \/ \E r \in Readers, n \in 1..(MaxSegLen + 1) : SliceRead(r, n)
    \/ \E r \in Readers, k \in Kinds : extract_file(r, k)

\* the absolute offsets of reader r's segment [a, b), in order
OwnRange(r) ==
    Offsets(HdrLen + sl_hdr[sl_kind[r]].start,
            sl_hdr[sl_kind[r]].end - sl_hdr[sl_kind[r]].start)

\* what a read of n bytes by reader r would deliver in the current state
NextBytes(r, n) ==
    IF sl_handle[r] = NoHandle THEN <<>>
    ELSE Offsets(sl_cursor[sl_handle[r]],
                 ReadCount(sl_hdr, sl_cursor[sl_handle[r]], sl_remaining[r], n))

\* C1: a slice reader built for [a, b) has delivered, after any reads of
\* any sizes, a prefix of the bytes of [a, b) in order and nothing else
\* (so once b-a bytes are delivered no read delivers a byte more), and a
\* read at the bound returns end-of-data.
C1_SliceContained ==
    \A r \in Readers :
        sl_handle[r] # NoHandle =>
            /\ Len(sl_out[r]) <= Len(OwnRange(r))
            /\ sl_out[r] = SubSeq(OwnRange(r), 1, Len(sl_out[r]))
            /\ (Len(sl_out[r]) = Len(OwnRange(r)) /\ sl_remaining[r] = 0) =>
                  \A n \in 1..(MaxSegLen + 1) : NextBytes(r, n) = <<>>

\* C1 witness: every byte of a segment delivered, the file continues
\* past the segment, and one more read returned end-of-data.
C1_Witness ==
    \E r \in Readers :
        /\ sl_handle[r] # NoHandle
        /\ Len(OwnRange(r)) >= 2
        /\ sl_out[r] = OwnRange(r)
        /\ HdrLen + sl_hdr[sl_kind[r]].end < FileLen(sl_hdr)
        /\ sl_eof[r]

ReaderState(r) == <<sl_handle[r], sl_kind[r], sl_remaining[r], sl_out[r], sl_eof[r]>>

\* C8: readers with their own handles do not interfere: a step of one
\* reader changes neither what any other reader has delivered nor what
\* its next read will deliver, and a reader that reached its bound has
\* delivered exactly its own range, whatever the others did meanwhile.
C8_NoInterference ==
    /\ [][\A s \in Readers : ReaderState(s)' # ReaderState(s) =>
            \A r \in Readers \ {s} :
                /\ sl_out'[r] = sl_out[r]
                /\ \A n \in 1..(MaxSegLen + 1) : NextBytes(r, n)' = NextBytes(r, n)]_vars
    /\ [](\A r \in Readers :
            (sl_handle[r] # NoHandle /\ sl_remaining[r] = 0) => sl_out[r] = OwnRange(r))

\* C8 witness: two readers open over the same segment (overlapping
\* ranges), interleaved, one still inside its range and the other ahead.
C8_Witness ==
    /\ sl_handle["r1"] # NoHandle /\ sl_handle["r2"] # NoHandle
    /\ sl_kind["r1"] = sl_kind["r2"]
    /\ Len(sl_out["r1"]) >= 1
    /\ Len(sl_out["r2"]) > Len(sl_out["r1"])
    /\ sl_remaining["r1"] > 0

-----------------------------------------------------------------------------
(* print_dict *)

\* Longest dictionary stream of the model.
MaxEntries == 3

\* The items TfcDictStream yields: a decoded entry (its bytes) or a decode error.
DictErr == "ERR"
DictBytes == {"a", "b"}

RECURSIVE SeqsUpTo(_, _)
SeqsUpTo(S, n) ==
    IF n = 0 THEN {<<>>}
    ELSE LET shorter == SeqsUpTo(S, n - 1)
         IN  shorter \cup {Append(s, x) : s \in {t \in shorter : Len(t) = n - 1}, x \in S}

\* the group's variables when main() dispatched another command
pdIdle == pd_items = <<>> /\ pd_ix = 0 /\ pd_printed = <<>> /\ pd_pc = "idle"

pdInit ==
    /\ pd_items \in SeqsUpTo(DictBytes \cup {DictErr}, MaxEntries)
    /\ pd_ix = 0
    /\ pd_printed = <<>>
    /\ pd_pc = "loop"

\* `println!("{}: {:?}", ix + 1, element.to_bytes())`
PrintedLine(ix, element) == [ordinal |-> ix + 1, bytes |-> element]

\* `while let Some((ix, element)) = stream.next().await` with an Ok element
PrintDictEntry ==
    /\ pd_pc = "loop"
    /\ pd_ix < Len(pd_items)
    /\ pd_items[pd_ix + 1] # DictErr
    /\ pd_printed' = Append(pd_printed, PrintedLine(pd_ix, pd_items[pd_ix + 1]))
    /\ pd_ix' = pd_ix + 1
    /\ UNCHANGED <<pd_items, pd_pc>>
    /\ UNCHANGED <<hpVars, slVars, tcVars, cwVars, laVars, obVars, piVars>>

\* faulty variant: a failed entry is skipped and the loop goes on
PrintDictErrorSkip ==
    /\ pd_pc = "loop"
    /\ pd_ix < Len(pd_items)
    /\ pd_items[pd_ix + 1] = DictErr
    /\ pd_ix' = pd_ix + 1
    /\ pd_pc' = IF pd_ix + 1 = Len(pd_items) THEN "err" ELSE "loop"
    /\ UNCHANGED <<pd_items, pd_printed>>
    /\ UNCHANGED <<hpVars, slVars, tcVars, cwVars, laVars, obVars, piVars>>

\* `element.map_err(...)?` on an Err element: print_dict returns the error
PrintDictError ==
    /\ pd_pc = "loop"
    /\ pd_ix < Len(pd_items)
    /\ pd_items[pd_ix + 1] = DictErr
    /\ pd_pc' = "err"
    /\ UNCHANGED <<pd_items, pd_ix, pd_printed>>
    /\ UNCHANGED <<hpVars, slVars, tcVars, cwVars, laVars, obVars, piVars>>

\* the stream is exhausted: `Ok(())`
PrintDictEnd ==
    /\ pd_pc = "loop"
    /\ pd_ix = Len(pd_items)
    /\ pd_pc' = "ok"
    /\ UNCHANGED <<pd_items, pd_ix, pd_printed>>
    /\ UNCHANGED <<hpVars, slVars, tcVars, cwVars, laVars, obVars, piVars>>

NextDict == PrintDictEntry \/ PrintDictError \/ PrintDictEnd

\* 1-based index of the first entry the stream fails to decode (0: none)
FirstErr(items) ==
    IF \E i \in 1..Len(items) : items[i] = DictErr
    THEN CHOOSE i \in 1..Len(items) :
            items[i] = DictErr /\ \A j \in 1..(i - 1) : items[j] # DictErr
    ELSE 0

\* C7: when the stream fails at entry i, print_dict ends with the error
\* having printed exactly entries 1..i-1, in stream order, numbered
\* 1..i-1; at no time has it printed an entry at or after i.
C7_StopsAtFirstError ==
    LET i == FirstErr(pd_items)
    IN  i > 0 =>
          /\ pd_pc # "ok"
          /\ Len(pd_printed) <= i - 1
          /\ \A j \in 1..Len(pd_printed) :
                pd_printed[j] = [ordinal |-> j, bytes |-> pd_items[j]]
          /\ pd_pc = "err" => Len(pd_printed) = i - 1

\* C7 witness: the error surfaced at a middle entry, after printed
\* entries and with entries still behind it in the stream.
C7_Witness ==
    /\ pd_pc = "err"
    /\ FirstErr(pd_items) >= 2
    /\ FirstErr(pd_items) < Len(pd_items)
    /\ pd_items[Len(pd_items)] # DictErr
    /\ Len(pd_printed) = FirstErr(pd_items) - 1

-----------------------------------------------------------------------------
(* Control word: 8 bytes holding (element count, bit width).               *)
(* A count is written as its 7 base-256 digits, most significant first     *)
(* (56 bits), so that counts up to 2^40 and beyond stay exact.             *)

\* `let mut buf = [0;8];`
ControlWordLen == 8
\* digits of a count
CountDigits == 7
\* the largest bit width of a log array
MaxBitWidth == 64

ZeroCount == [i \in 1..CountDigits |-> 0]

\* the digits of a number below 2^31
DigitsOf(n) ==
    <<0, 0, 0, n \div 16777216, (n \div 65536) % 256, (n \div 256) % 256, n % 256>>

\* encode: the low 32 bits of the count big-endian, the width, then the
\* high 24 bits of the count big-endian
EncodeControlWord(count, width) ==
    <<count[4], count[5], count[6], count[7], width, count[1], count[2], count[3]>>

\* faulty variant: the low 32 bits read little-endian
ParseControlWordLE(buf) ==
    [count |-> <<buf[6], buf[7], buf[8], buf[4], buf[3], buf[2], buf[1]>>, width |-> buf[5]]

\* parse_control_word(&buf) -> (count, width)
parse_control_word(buf) ==
    [count |-> <<buf[6], buf[7], buf[8], buf[1], buf[2], buf[3], buf[4]>>, width |-> buf[5]]

-----------------------------------------------------------------------------
(* get_triple_count *)

\* LayerFileEnum::PosSpOAdjacencyListNums (its ordinal in the scaled-down enumeration)
PosSpOAdjacencyListNums == 1
\* Segments are up to ControlWordLen + TripleSlack bytes long.
TripleSlack == 1

\* element counts a PosSpOAdjacencyListNums control word may hold
TripleCounts == {0, 5, 70000}

\* a byte of the archive that belongs to no control word
Filler(off) == 100 + (off % 100)

\* The archive: header block, then the segments; a PosSpOAdjacencyListNums
\* segment long enough for one ends with its control word.
TripleFile(hdr, count) ==
    LET r == hdr[PosSpOAdjacencyListNums]
        cwAt == HdrLen + r.end - ControlWordLen
        cw == EncodeControlWord(DigitsOf(count), 3)
    IN  [i \in 1..FileLen(hdr) |->
            IF r.present /\ r.end - r.start >= ControlWordLen
                 /\ i - 1 >= cwAt /\ i - 1 < cwAt + ControlWordLen
            THEN cw[i - cwAt]
            ELSE Filler(i - 1)]

\* the group's variables when main() dispatched another command
tcIdle ==
    /\ tc_hdr = [k \in Kinds |-> Absent] /\ tc_file = <<>> /\ tc_pos = 0
    /\ tc_buf = <<>> /\ tc_printed = <<>> /\ tc_pc = "idle"

tcInit ==
    /\ tc_hdr \in Headers(ControlWordLen + TripleSlack)
    /\ \E n \in TripleCounts : tc_file = TripleFile(tc_hdr, n)
    /\ tc_pos = 0
    /\ tc_buf = <<>>
    /\ tc_printed = <<>>
    /\ tc_pc = "start"

\* file.seek(SeekFrom::Current(range.end as i64 - 8)) with the cursor at the
\* end of the header block
TripleSeek(range) == HdrLen + range.end - ControlWordLen

\* the range is None: `.unwrap()` panics
TripleCountNoRange ==
    /\ tc_pc = "start"
    /\ ~range_for(tc_hdr, PosSpOAdjacencyListNums).present
    /\ tc_pc' = "panic"
    /\ UNCHANGED <<tc_hdr, tc_file, tc_pos, tc_buf, tc_printed>>
    /\ UNCHANGED <<hpVars, slVars, pdVars, cwVars, laVars, obVars, piVars>>

\* the seek would land before the start of the file, or read_exact runs
\* out of file: the `?` returns the io error
TripleCountIoError ==
    /\ tc_pc = "start"
    /\ range_for(tc_hdr, PosSpOAdjacencyListNums).present
    /\ LET target == TripleSeek(range_for(tc_hdr, PosSpOAdjacencyListNums))
       IN  target < 0 \/ target + ControlWordLen > Len(tc_file)
    /\ tc_pc' = "err"
    /\ UNCHANGED <<tc_hdr, tc_file, tc_pos, tc_buf, tc_printed>>
    /\ UNCHANGED <<hpVars, slVars, pdVars, cwVars, laVars, obVars, piVars>>

\* seek, read_exact of 8 bytes, parse_control_word, println!("{size}")
TripleCountPrint ==
    /\ tc_pc = "start"
    /\ range_for(tc_hdr, PosSpOAdjacencyListNums).present
    /\ LET target == TripleSeek(range_for(tc_hdr, PosSpOAdjacencyListNums))
           buf == SubSeq(tc_file, target + 1, target + ControlWordLen)
       IN  /\ target >= 0 /\ target + ControlWordLen <= Len(tc_file)
           /\ tc_pos' = target
           /\ tc_buf' = buf
           /\ tc_printed' = parse_control_word(buf).count
    /\ tc_pc' = "done"
    /\ UNCHANGED <<tc_hdr, tc_file>>
    /\ UNCHANGED <<hpVars, slVars, pdVars, cwVars, laVars, obVars, piVars>>

NextTriple == TripleCountNoRange \/ TripleCountIoError \/ TripleCountPrint

\* C10: the 8 bytes get_triple_count decodes are the last 8 bytes of the
\* PosSpOAdjacencyListNums segment, all of them inside [start, end) of
\* that segment (never header bytes or another segment's), whatever the
\* segment's length; the printed count is the count of that control word.
C10_ControlWordInsideSegment ==
    tc_pc = "done" =>
        LET r == tc_hdr[PosSpOAdjacencyListNums]
        IN  /\ tc_pos = HdrLen + r.end - ControlWordLen
            /\ tc_pos >= HdrLen + r.start
            /\ tc_pos + ControlWordLen <= HdrLen + r.end
            /\ tc_printed = parse_control_word(tc_buf).count

\* C10 witness of the divergence: a completed run whose 8 decoded bytes
\* start inside the segment before PosSpOAdjacencyListNums
C10_ReadsOtherSegment ==
    /\ tc_pc = "done"
    /\ tc_hdr[PosSpOAdjacencyListNums].start > 0
    /\ tc_pos < HdrLen + tc_hdr[PosSpOAdjacencyListNums].start
    /\ tc_pos >= HdrLen

-----------------------------------------------------------------------------
(* Control-word round trip *)

\* digit values the counts of the model are built from
ByteSamples == {0, 1, 255}

\* counts in [0, 2^40): the two leading digits are 0
CountsBelow2Pow40 ==
    {<<0, 0, d4, d3, d2, d1, d0>> :
        d4 \in ByteSamples, d3 \in ByteSamples, d2 \in ByteSamples,
        d1 \in ByteSamples, d0 \in ByteSamples}

\* the group's variables when main() dispatched another command
NoControlWord == [count |-> ZeroCount, width |-> 0]

cwIdle ==
    /\ cw_count = ZeroCount /\ cw_width = 0 /\ cw_buf = <<>>
    /\ cw_out = NoControlWord /\ cw_pc = "idle"

cwInit ==
    /\ cw_count \in CountsBelow2Pow40
    /\ cw_width \in 0..MaxBitWidth
    /\ cw_buf = <<>>
    /\ cw_out = NoControlWord
    /\ cw_pc = "input"

CwEncode ==
    /\ cw_pc = "input"
    /\ cw_buf' = EncodeControlWord(cw_count, cw_width)
    /\ cw_pc' = "encoded"
    /\ UNCHANGED <<cw_count, cw_width, cw_out>>
    /\ UNCHANGED <<hpVars, slVars, pdVars, tcVars, laVars, obVars, piVars>>

\* `let (size, _width) = parse_control_word(&buf);`
CwDecode ==
    /\ cw_pc = "encoded"
    /\ cw_out' = parse_control_word(cw_buf)
    /\ cw_pc' = "decoded"
    /\ UNCHANGED <<cw_count, cw_width, cw_buf>>
    /\ UNCHANGED <<hpVars, slVars, pdVars, tcVars, laVars, obVars, piVars>>

NextCW == CwEncode \/ CwDecode

\* C4: decoding the 8 bytes encode(count, bit_width) produced returns
\* (count, bit_width), for counts below 2^40 and widths 0..64.
C4_ControlWordRoundTrip ==
    cw_pc = "decoded" =>
        /\ Len(cw_buf) = ControlWordLen
        /\ cw_out = [count |-> cw_count, width |-> cw_width]

\* C4 witness: a count of 2^32 or more (a digit above the low 32 bits),
\* whose low digits differ, round-tripped with the widest width.
C4_Witness ==
    /\ cw_pc = "decoded"
    /\ cw_count[3] = 255 /\ cw_count[4] = 1 /\ cw_count[7] = 0
    /\ cw_width = MaxBitWidth
    /\ cw_out.count = cw_count

-----------------------------------------------------------------------------
(* Log array: packed fixed-width integers plus one control word, which is  *)
(* the first or the last 8 bytes of the buffer.                            *)

\* Longest sequence, largest value and widest bit width of the model.
MaxLogLen == 3
MaxLogVal == 3
MaxLogWidth == 3

\* bits of a storage word; the payload is a whole number of words
WordBits == 64

RECURSIVE Pow2(_)
Pow2(n) == IF n = 0 THEN 1 ELSE 2 * Pow2(n - 1)

RECURSIVE SeqMax(_)
SeqMax(v) ==
    IF v = <<>> THEN 0
    ELSE IF v[Len(v)] > SeqMax(Front(v)) THEN v[Len(v)] ELSE SeqMax(Front(v))

\* ceil(log2(max(v) + 1)): the least width that holds every value of v
RECURSIVE WidthFrom(_, _)
WidthFrom(m, w) == IF m < Pow2(w) THEN w ELSE WidthFrom(m, w + 1)
WidthFor(v) == WidthFrom(SeqMax(v), 0)

\* bytes of the payload of count values of the given width: whole words
PayloadBytes(count, width) ==
    ((count * width + WordBits - 1) \div WordBits) * (WordBits \div 8)

\* bit j (from 0) of the packed values: value j \div width, most significant bit first
PackedBit(v, width, j) ==
    IF width > 0 /\ j < Len(v) * width
    THEN (v[(j \div width) + 1] \div Pow2(width - 1 - (j % width))) % 2
    ELSE 0

\* the payload bytes: bit j sits in byte j \div 8 at weight 2^(7 - j % 8)
PackLogArray(v, width) ==
    [b \in 1..PayloadBytes(Len(v), width) |->
        PackedBit(v, width, 8 * (b - 1)) * 128 + PackedBit(v, width, 8 * (b - 1) + 1) * 64
      + PackedBit(v, width, 8 * (b - 1) + 2) * 32 + PackedBit(v, width, 8 * (b - 1) + 3) * 16
      + PackedBit(v, width, 8 * (b - 1) + 4) * 8 + PackedBit(v, width, 8 * (b - 1) + 5) * 4
      + PackedBit(v, width, 8 * (b - 1) + 6) * 2 + PackedBit(v, width, 8 * (b - 1) + 7)]

EncodeLogArray(v, width, first) ==
    IF first
    THEN EncodeControlWord(DigitsOf(Len(v)), width) \o PackLogArray(v, width)
    ELSE PackLogArray(v, width) \o EncodeControlWord(DigitsOf(Len(v)), width)

\* a count as a number; -1 for one of 2^30 or more (no buffer of the model holds it)
CountValue(digits) ==
    IF digits[1] = 0 /\ digits[2] = 0 /\ digits[3] = 0 /\ digits[4] < 64
    THEN digits[4] * 16777216 + digits[5] * 65536 + digits[6] * 256 + digits[7]
    ELSE -1

ParseFailed == [ok |-> FALSE, cwAt |-> 0, count |-> ZeroCount, width |-> 0, payload |-> <<>>]

\* the parse once the control word is located at byte offset cwAt and the
\* payload at byte offset dataAt, with avail bytes for the payload
ParseAt(buf, cwAt, dataAt, avail) ==
    LET cw == parse_control_word(SubSeq(buf, cwAt + 1, cwAt + ControlWordLen))
        n == CountValue(cw.count)
        need == IF cw.width = 0 THEN 0
                ELSE IF n < 0 THEN avail + 1
                ELSE PayloadBytes(n, cw.width)
    IN  IF cw.width > MaxBitWidth \/ need > avail THEN ParseFailed
        ELSE [ok |-> TRUE, cwAt |-> cwAt, count |-> cw.count, width |-> cw.width,
              payload |-> SubSeq(buf, dataAt + 1, dataAt + need)]

\* LogArray::parse(contents): the control word is the last 8 bytes
LogArrayParse(buf) ==
    IF Len(buf) < ControlWordLen THEN ParseFailed
    ELSE ParseAt(buf, Len(buf) - ControlWordLen, 0, Len(buf) - ControlWordLen)

\* LogArray::parse_header_first(contents): the control word is the first 8 bytes
LogArrayParseHeaderFirst(buf) ==
    IF Len(buf) < ControlWordLen THEN ParseFailed
    ELSE ParseAt(buf, 0, ControlWordLen, Len(buf) - ControlWordLen)

\* get(index): the bits [i*width, (i+1)*width) of the payload, most significant first
RECURSIVE BitsValue(_, _, _)
BitsValue(payload, from, n) ==
    IF n = 0 THEN 0
    ELSE 2 * BitsValue(payload, from, n - 1)
         + ((payload[((from + n - 1) \div 8) + 1] \div Pow2(7 - ((from + n - 1) % 8))) % 2)

LogArrayGet(la, i) == BitsValue(la.payload, i * la.width, la.width)

-----------------------------------------------------------------------------
(* validate_logarray *)

\* the group's variables when main() dispatched another command
laIdle ==
    /\ la_v = <<>> /\ la_width = 0 /\ la_first = FALSE /\ la_buf = <<>>
    /\ la_flag = FALSE /\ la_parsed = ParseFailed /\ la_pc = "idle"

laInit ==
    /\ la_v \in SeqsUpTo(0..MaxLogVal, MaxLogLen)
    /\ la_width \in WidthFor(la_v)..MaxLogWidth
    /\ la_first \in BOOLEAN
    /\ la_flag \in BOOLEAN
    /\ la_buf = <<>>
    /\ la_parsed = ParseFailed
    /\ la_pc = "input"

\* the file validate_logarray is given: v encoded with either layout
LaEncode ==
    /\ la_pc = "input"
    /\ la_buf' = EncodeLogArray(la_v, la_width, la_first)
    /\ la_pc' = "encoded"
    /\ UNCHANGED <<la_v, la_width, la_first, la_flag, la_parsed>>
    /\ UNCHANGED <<hpVars, slVars, pdVars, tcVars, cwVars, obVars, piVars>>

\* faulty variant: the two branches exchanged
ParseByFlagSwapped(header_first, contents) ==
    IF header_first THEN LogArrayParse(contents) ELSE LogArrayParseHeaderFirst(contents)

\* `if header_first { LogArray::parse_header_first(contents) } else { LogArray::parse(contents) }`
ParseByFlag(header_first, contents) ==
    IF header_first THEN LogArrayParseHeaderFirst(contents) ELSE LogArrayParse(contents)

\* read_to_end, then the parse the flag selects; `.unwrap()` panics on a parse error
validate_logarray ==
    /\ la_pc = "encoded"
    /\ la_parsed' = ParseByFlag(la_flag, la_buf)
    /\ la_pc' = IF ParseByFlag(la_flag, la_buf).ok THEN "validated" ELSE "panic"
    /\ UNCHANGED <<la_v, la_width, la_first, la_flag, la_buf>>
    /\ UNCHANGED <<hpVars, slVars, pdVars, tcVars, cwVars, obVars, piVars>>

NextLog == LaEncode \/ validate_logarray

LaRan == la_pc \in {"validated", "panic"}

\* C5: v encoded with a width that holds max(v), parsed with the layout
\* it was encoded with (control word first or last), reads back as v at
\* every index; for both layouts.
C5_LogArrayRoundTrip ==
    (LaRan /\ la_flag = la_first) =>
        /\ la_pc = "validated"
        /\ CountValue(la_parsed.count) = Len(la_v)
        /\ la_parsed.width = la_width
        /\ \A i \in 0..(Len(la_v) - 1) : LogArrayGet(la_parsed, i) = la_v[i + 1]

\* C5 witness: a header-first array of three 3-bit values, the last of
\* which straddles a byte boundary, parsed and read back.
C5_Witness ==
    /\ la_pc = "validated" /\ la_flag /\ la_first
    /\ Len(la_v) = 3 /\ la_width = 3
    /\ la_v[3] = MaxLogVal /\ la_v[1] = 1
    /\ LogArrayGet(la_parsed, 2) = MaxLogVal

\* C9: with header_first not given (false) validate_logarray takes the
\* control word from the start of the buffer.
C9_DefaultParsesHeaderAtStart ==
    (LaRan /\ ~la_flag) => la_parsed = LogArrayParseHeaderFirst(la_buf)

\* C9 witness of the divergence: a header-first file validated without
\* the flag is parsed with the control word taken from its last 8 bytes.
C9_DefaultParsesHeaderAtEnd ==
    /\ LaRan /\ ~la_flag /\ la_first
    /\ Len(la_buf) > ControlWordLen
    /\ la_parsed = LogArrayParse(la_buf)
    /\ la_parsed # LogArrayParseHeaderFirst(la_buf)

-----------------------------------------------------------------------------
(* Bit index: a bit vector with two levels of cumulative counts (blocks    *)
(* within a superblock, superblocks from the start) answering rank.        *)

\* bits per block and blocks per superblock (scaled down)
BlockBits == 2
SBlockBlocks == 2

SBlockBits == BlockBits * SBlockBlocks

\* s[i], or 0 beyond the end of s
At(s, i) == IF i \in DOMAIN s THEN s[i] ELSE 0

\* number of positions in from+1..to that hold a 1
RECURSIVE Ones(_, _, _)
Ones(bits, from, to) ==
    IF to <= from THEN 0
    ELSE Ones(bits, from, to - 1) + (IF At(bits, to) = 1 THEN 1 ELSE 0)

\* blocks[j+1]: ones from the start of the enclosing superblock to bit j*BlockBits
BuildBlocks(bits) ==
    [j1 \in 1..((Len(bits) \div BlockBits) + 1) |->
        Ones(bits, (((j1 - 1) * BlockBits) \div SBlockBits) * SBlockBits, (j1 - 1) * BlockBits)]

\* sblocks[j+1]: ones in the first j*SBlockBits bits
BuildSBlocks(bits) ==
    [j1 \in 1..((Len(bits) \div SBlockBits) + 1) |-> Ones(bits, 0, (j1 - 1) * SBlockBits)]

\* rank: ones among the first i bits, from the two snapshots and the bits
\* after the last block boundary
Rank1(bits, blocks, sblocks, i) ==
    At(sblocks, (i \div SBlockBits) + 1) + At(blocks, (i \div BlockBits) + 1)
        + Ones(bits, (i \div BlockBits) * BlockBits, i)

\* select: the position of the k-th one (0: there is none)
Select1(bits, blocks, sblocks, k) ==
    IF k >= 1 /\ \E i \in 1..Len(bits) : At(bits, i) = 1 /\ Rank1(bits, blocks, sblocks, i) = k
    THEN CHOOSE i \in 1..Len(bits) : At(bits, i) = 1 /\ Rank1(bits, blocks, sblocks, i) = k
    ELSE 0

-----------------------------------------------------------------------------
(* build_object_index *)

\* Largest subject, predicate and object id, and most triples of a layer.
MaxSubject == 2
MaxPredicate == 2
MaxObject == 3
MaxTriples == 3

Triples == (1..MaxSubject) \X (1..MaxPredicate) \X (1..MaxObject)

\* lexicographic order on tuples of equal length
RECURSIVE LexLeqFrom(_, _, _)
LexLeqFrom(a, b, i) ==
    IF i > Len(a) THEN TRUE
    ELSE IF a[i] # b[i] THEN a[i] < b[i]
    ELSE LexLeqFrom(a, b, i + 1)
LexLeq(a, b) == LexLeqFrom(a, b, 1)

RECURSIVE SortSet(_)
SortSet(S) ==
    IF S = {} THEN <<>>
    ELSE LET m == CHOOSE t \in S : \A u \in S : LexLeq(t, u)
         IN  <<m>> \o SortSet(S \ {m})

\* The layer's adjacency for a set of triples: the (subject, predicate)
\* pairs in order (the s_p adjacency), the objects of each pair in order
\* (sp_o nums) and a 1 on the last object of each pair (sp_o bits).
SourceAdjacency(T) ==
    LET ts == SortSet(T)
    IN  [pairs |-> SortSet({<<t[1], t[2]>> : t \in T}),
         nums |-> [j \in 1..Len(ts) |-> ts[j][3]],
         bits |-> [j \in 1..Len(ts) |->
                     IF j = Len(ts) \/ <<ts[j + 1][1], ts[j + 1][2]>> # <<ts[j][1], ts[j][2]>>
                     THEN 1 ELSE 0]]

\* one insertion of the sort by (object, pair)
RECURSIVE InsertLex(_, _)
InsertLex(x, s) ==
    IF s = <<>> THEN <<x>>
    ELSE IF LexLeq(s[Len(s)], x) THEN Append(s, x)
    ELSE Append(InsertLex(x, Front(s)), s[Len(s)])

RECURSIVE SortLex(_)
SortLex(s) == IF s = <<>> THEN <<>> ELSE InsertLex(s[Len(s)], SortLex(Front(s)))

\* the run of one object: its pairs with a 1 on the last, or the empty-run entry 0
ObjectRun(sorted, o) ==
    LET mine == SelectSeq(sorted, LAMBDA e : e[1] = o)
    IN  IF mine = <<>> THEN [nums |-> <<0>>, bits |-> <<1>>]
        ELSE [nums |-> [j \in 1..Len(mine) |-> mine[j][2]],
              bits |-> [j \in 1..Len(mine) |-> IF j = Len(mine) THEN 1 ELSE 0]]

RECURSIVE EncodeRuns(_, _, _)
EncodeRuns(sorted, o, maxO) ==
    IF o > maxO THEN [nums |-> <<>>, bits |-> <<>>]
    ELSE LET rest == EncodeRuns(sorted, o + 1, maxO)
         IN  [nums |-> ObjectRun(sorted, o).nums \o rest.nums,
              bits |-> ObjectRun(sorted, o).bits \o rest.bits]

\* build_object_index_from_direct_files: one (object, pair position) per
\* entry of sp_o nums, sorted, then run-encoded by object with its bit index.
\* The builder is handed sp_o nums and bits only, so what it emits for a
\* triple (s,p,o) is o with the position of its (s,p) pair; the predicate
\* is read off the s_p adjacency at that position.
BuildObjectIndexFromDirectFiles(sp_o_nums, sp_o_bits) ==
    LET emitted == [j \in 1..Len(sp_o_nums) |->
                       <<sp_o_nums[j], 1 + Ones(sp_o_bits, 0, j - 1)>>]
        runs == EncodeRuns(SortLex(emitted), 1, SeqMax(sp_o_nums))
    IN  [nums |-> runs.nums, bits |-> runs.bits,
         blocks |-> BuildBlocks(runs.bits), sblocks |-> BuildSBlocks(runs.bits)]

\* faulty variant: the nums and bits paths exchanged
OPsFilesSwapped(built) ==
    [nums |-> built.bits, bits |-> built.nums,
     bit_index_blocks |-> built.blocks, bit_index_sblocks |-> built.sblocks]

\* the four files under o_ps_dir: "nums", "bits", "bit_index_blocks", "bit_index_sblocks"
OPsFiles(built) ==
    [nums |-> built.nums, bits |-> built.bits,
     bit_index_blocks |-> built.blocks, bit_index_sblocks |-> built.sblocks]

\* the group's variables when main() dispatched another command
NoAdjacency == [pairs |-> <<>>, nums |-> <<>>, bits |-> <<>>]
NoOPsFiles == [nums |-> <<>>, bits |-> <<>>, bit_index_blocks |-> <<>>, bit_index_sblocks |-> <<>>]

obIdle == ob_triples = {} /\ ob_src = NoAdjacency /\ ob_dir = NoOPsFiles /\ ob_pc = "idle"

obInit ==
    /\ ob_triples = {}
    /\ ob_src = NoAdjacency
    /\ ob_dir = NoOPsFiles
    /\ ob_pc = "input"

\* the layer whose adjacency files the command is given holds one more triple
AddTriple(t) ==
    /\ ob_pc = "input"
    /\ t \notin ob_triples
    /\ Cardinality(ob_triples) < MaxTriples
    /\ ob_triples' = ob_triples \cup {t}
    /\ UNCHANGED <<ob_src, ob_dir, ob_pc>>
    /\ UNCHANGED <<hpVars, slVars, pdVars, tcVars, cwVars, laVars, piVars>>

build_object_index ==
    /\ ob_pc = "input"
    /\ ob_src' = SourceAdjacency(ob_triples)
    /\ ob_dir' = OPsFiles(BuildObjectIndexFromDirectFiles(
                     SourceAdjacency(ob_triples).nums, SourceAdjacency(ob_triples).bits))
    /\ ob_pc' = "done"
    /\ UNCHANGED ob_triples
    /\ UNCHANGED <<hpVars, slVars, pdVars, tcVars, cwVars, laVars, piVars>>

NextObj == (\E t \in Triples : AddTriple(t)) \/ build_object_index

\* the run of object o read from the built files: the entries between the
\* (o-1)-th and the o-th one of "bits", without the empty-run entry
ObjectRunOf(dir, o) ==
    LET last == Select1(dir.bits, dir.bit_index_blocks, dir.bit_index_sblocks, o)
        prev == IF o = 1 THEN 0
                ELSE Select1(dir.bits, dir.bit_index_blocks, dir.bit_index_sblocks, o - 1)
    IN  IF last = 0 \/ (o > 1 /\ prev = 0) THEN <<>>
        ELSE SelectSeq(SubSeq(dir.nums, prev + 1, last), LAMBDA x : x # 0)

\* the predicates the run of object o reports, through the s_p adjacency
PredicatesOf(src, dir, o) ==
    [j \in 1..Len(ObjectRunOf(dir, o)) |->
        IF ObjectRunOf(dir, o)[j] \in DOMAIN src.pairs
        THEN src.pairs[ObjectRunOf(dir, o)[j]][2] ELSE 0]

-----------------------------------------------------------------------------
(* build_predicate_index *)

\* Longest subject->predicate sequence and largest predicate id of the model.
MaxSeqLen == 5
MaxSeqPredicate == 3

Predicates == 1..MaxSeqPredicate

\* builder::build_predicate_index: one pass over the sequence; per
\* predicate the presence markers, and the running count snapshotted at
\* every block and superblock boundary
BuildPredicateIndex(s_p_nums) ==
    LET marks(p) == [i \in 1..Len(s_p_nums) |-> IF s_p_nums[i] = p THEN 1 ELSE 0]
    IN  [bits |-> [p \in Predicates |-> marks(p)],
         blocks |-> [p \in Predicates |-> BuildBlocks(marks(p))],
         sblocks |-> [p \in Predicates |-> BuildSBlocks(marks(p))]]

\* faulty variant: the blocks and sblocks paths exchanged
WaveletFilesSwapped(built) ==
    [bits |-> built.bits, blocks |-> built.sblocks, sblocks |-> built.blocks]

\* the three files under predicate_index_dir: "bits", "blocks", "sblocks"
WaveletFiles(built) ==
    [bits |-> built.bits, blocks |-> built.blocks, sblocks |-> built.sblocks]

\* the group's variables when main() dispatched another command
NoWaveletFiles == [bits |-> <<>>, blocks |-> <<>>, sblocks |-> <<>>]

piIdle == pi_seq = <<>> /\ pi_dir = NoWaveletFiles /\ pi_pc = "idle"

piInit ==
    /\ pi_seq \in SeqsUpTo(Predicates, MaxSeqLen)
    /\ pi_dir = NoWaveletFiles
    /\ pi_pc = "input"

build_predicate_index ==
    /\ pi_pc = "input"
    /\ pi_dir' = WaveletFiles(BuildPredicateIndex(pi_seq))
    /\ pi_pc' = "done"
    /\ UNCHANGED pi_seq
    /\ UNCHANGED <<hpVars, slVars, pdVars, tcVars, cwVars, laVars, obVars>>

NextPred == build_predicate_index

\* rank(p, i) answered from the built files
PredicateRank(dir, p, i) == Rank1(dir.bits[p], dir.blocks[p], dir.sblocks[p], i)

\* C3: rank(p, i) of the built index is the number of occurrences of p
\* among the first i positions of the sequence, for every predicate and
\* position, and so never decreases as i grows.
C3_RankCounts ==
    pi_pc = "done" =>
        \A p \in Predicates :
            /\ \A i \in 0..Len(pi_seq) :
                  PredicateRank(pi_dir, p, i)
                      = Cardinality({j \in 1..i : pi_seq[j] = p})
            /\ \A i \in 0..(Len(pi_seq) - 1) :
                  PredicateRank(pi_dir, p, i) <= PredicateRank(pi_dir, p, i + 1)

\* C3 witness: the sequence [1,2,1,3,1] indexed, rank(1,5) = 3 and rank(1,2) = 1.
C3_Witness ==
    /\ pi_pc = "done"
    /\ pi_seq = <<1, 2, 1, 3, 1>>
    /\ PredicateRank(pi_dir, 1, 5) = 3
    /\ PredicateRank(pi_dir, 1, 2) = 1

-----------------------------------------------------------------------------
(* main: `match cli.command` runs exactly one of the commands *)

InitHeader == hpInit /\ slIdle /\ pdIdle /\ tcIdle /\ cwIdle /\ laIdle /\ obIdle /\ piIdle
InitSlice == hpIdle /\ slInit /\ pdIdle /\ tcIdle /\ cwIdle /\ laIdle /\ obIdle /\ piIdle
InitDict == hpIdle /\ slIdle /\ pdInit /\ tcIdle /\ cwIdle /\ laIdle /\ obIdle /\ piIdle
InitTriple == hpIdle /\ slIdle /\ pdIdle /\ tcInit /\ cwIdle /\ laIdle /\ obIdle /\ piIdle
InitCW == hpIdle /\ slIdle /\ pdIdle /\ tcIdle /\ cwInit /\ laIdle /\ obIdle /\ piIdle
InitLog == hpIdle /\ slIdle /\ pdIdle /\ tcIdle /\ cwIdle /\ laInit /\ obIdle /\ piIdle
InitObj == hpIdle /\ slIdle /\ pdIdle /\ tcIdle /\ cwIdle /\ laIdle /\ obInit /\ piIdle
InitPred == hpIdle /\ slIdle /\ pdIdle /\ tcIdle /\ cwIdle /\ laIdle /\ obIdle /\ piInit

Init ==
    \/ InitHeader \/ InitSlice \/ InitDict \/ InitTriple
    \/ InitCW \/ InitLog \/ InitObj \/ InitPred

Next ==
    \/ NextHeader \/ NextSlice \/ NextDict \/ NextTriple
    \/ NextCW \/ NextLog \/ NextObj \/ NextPred

SpecHeader == InitHeader /\ [][NextHeader]_vars
SpecSlice == InitSlice /\ [][NextSlice]_vars
SpecDict == InitDict /\ [][NextDict]_vars
SpecTriple == InitTriple /\ [][NextTriple]_vars
SpecCW == InitCW /\ [][NextCW]_vars
SpecLog == InitLog /\ [][NextLog]_vars
SpecObj == InitObj /\ [][NextObj]_vars
SpecPred == InitPred /\ [][NextPred]_vars
Spec == Init /\ [][Next]_vars

=============================================================================
